---------------------------- MODULE Spec2Model ----------------------------
(***************************************************************************)
(* A model of the streamlit-stock dashboard.                               *)
(*                                                                         *)
(*   - the portfolio set-up page (Home.py, pages/1_Portfolio.py): the      *)
(*     shared session state (tickers, weights), the ticker text input, the *)
(*     weight sliders, the Delete and Add buttons and the reruns they      *)
(*     trigger;                                                            *)
(*   - calculate_balanced_weights, the default-weight rule;                *)
(*   - the analysis page (pages/2_Portfolio_Analysis.py): fetch, daily     *)
(*     returns, the portfolio aggregation loop and the metrics.            *)
(*                                                                         *)
(* Numbers.  A float is modelled by the exact extended rational it stands  *)
(* for: a pair <<n, d>> in lowest terms with d > 0, or <<0, 0>> for NaN,   *)
(* <<1, 0>> for +inf and <<-1, 0>> for -inf.  Where a statement is about   *)
(* the binary representation itself (the sum of the default weights), the  *)
(* IEEE-754 double is modelled bit-exactly (section "binary64").           *)
(***************************************************************************)
EXTENDS Integers, Sequences, FiniteSets, TLC

VARIABLES
    tickers,            \* st.session_state.tickers: a list of ticker strings
    weights,            \* st.session_state.weights: dict ticker -> fraction
    ticker_text,        \* the states of the ticker text_input: default -> text
    slider,             \* the states of the weight widgets: <<ticker, default>> -> points
    hist,               \* the market-data provider: dict ticker -> date -> Close
    page,               \* what the last run of a page displayed
    pc,                 \* position of the function-call harness
    arg,                \* the argument of the function under call
    ret                 \* its result

vars == <<tickers, weights, ticker_text, slider, hist, page, pc, arg, ret>>

-----------------------------------------------------------------------------
(* Extended rationals: the values of Python/numpy floats, without rounding. *)

Abs(n) == IF n < 0 THEN -n ELSE n

Sign(n) == IF n < 0 THEN -1 ELSE IF n > 0 THEN 1 ELSE 0

RECURSIVE GCD(_, _)
GCD(a, b) == IF b = 0 THEN a ELSE GCD(b, a % b)

\* The rational n/d in lowest terms; x/0 is +-inf and 0/0 is NaN, as for floats.
Q(n, d) ==
    IF d = 0 THEN <<Sign(n), 0>>
    ELSE LET g == GCD(Abs(n), Abs(d))
             s == IF d < 0 THEN -1 ELSE 1
         IN  <<(s * n) \div g, (s * d) \div g>>

NaN == <<0, 0>>

Zero == <<0, 1>>

One == <<1, 1>>

IsNaN(x) == x = NaN

IsFinite(x) == x[2] # 0

QAdd(x, y) ==
    IF IsNaN(x) \/ IsNaN(y) THEN NaN
    ELSE IF ~IsFinite(x) /\ ~IsFinite(y) THEN (IF x = y THEN x ELSE NaN)
    ELSE IF ~IsFinite(x) THEN x
    ELSE IF ~IsFinite(y) THEN y
    ELSE LET g == GCD(x[2], y[2])
         IN  Q(x[1] * (y[2] \div g) + y[1] * (x[2] \div g), (x[2] \div g) * y[2])

QNeg(x) == <<-x[1], x[2]>>

QSub(x, y) == QAdd(x, QNeg(y))

QMul(x, y) ==
    IF IsNaN(x) \/ IsNaN(y) THEN NaN
    ELSE IF ~IsFinite(x) \/ ~IsFinite(y)
         THEN <<Sign(x[1]) * Sign(y[1]), 0>>      \* inf * 0 is NaN
    ELSE LET a == Q(x[1], y[2])
             b == Q(y[1], x[2])
         IN  Q(a[1] * b[1], a[2] * b[2])

QDiv(x, y) ==
    IF IsNaN(x) \/ IsNaN(y) THEN NaN
    ELSE IF ~IsFinite(x) THEN (IF IsFinite(y) THEN <<x[1] * (IF y[1] < 0 THEN -1 ELSE 1), 0>>
                               ELSE NaN)
    ELSE IF ~IsFinite(y) THEN Zero
    ELSE LET a == Q(x[1], y[1])
             b == Q(y[2], x[2])
         IN  IF y[1] = 0 THEN <<Sign(x[1]), 0>> ELSE Q(a[1] * b[1], a[2] * b[2])

\* x < y and x <= y; every comparison with NaN is false.
QLt(x, y) ==
    /\ ~IsNaN(x) /\ ~IsNaN(y)
    /\ IF IsFinite(x) /\ IsFinite(y) THEN QSub(x, y)[1] < 0
       ELSE IF ~IsFinite(x) /\ ~IsFinite(y) THEN x[1] < y[1]
       ELSE IF ~IsFinite(x) THEN x[1] < 0
       ELSE y[1] > 0

QLe(x, y) == ~IsNaN(x) /\ ~IsNaN(y) /\ (x = y \/ QLt(x, y))

-----------------------------------------------------------------------------
(* binary64.  A non-negative double below 2 is the integer X with value     *)
(* X * 2^-62, held in four limbs <<l3, l2, l1, l0>> of 20 bits              *)
(* (X = l3*2^60 + l2*2^40 + l1*2^20 + l0); a double has at most 53          *)
(* significant bits, so its low bits are zero.                              *)

LimbBase == 2 ^ 20

RECURSIVE BitLen(_)
BitLen(x) == IF x = 0 THEN 0 ELSE 1 + BitLen(x \div 2)

\* Number of significant bits of the limb number X.
LimbBits(X) ==
    IF X[1] > 0 THEN 60 + BitLen(X[1])
    ELSE IF X[2] > 0 THEN 40 + BitLen(X[2])
    ELSE IF X[3] > 0 THEN 20 + BitLen(X[3])
    ELSE BitLen(X[4])

\* Carry propagation after a limb-wise operation.
LimbCarry(X) ==
    LET c0 == X[4]
        c1 == X[3] + c0 \div LimbBase
        c2 == X[2] + c1 \div LimbBase
        c3 == X[1] + c2 \div LimbBase
    IN  <<c3, c2 % LimbBase, c1 % LimbBase, c0 % LimbBase>>

LimbAdd(X, Y) == LimbCarry(<<X[1] + Y[1], X[2] + Y[2], X[3] + Y[3], X[4] + Y[4]>>)

\* Round to nearest, ties to even, at 53 significant bits; sticky tells that
\* the exact value has further non-zero bits below X.
FRound(X, sticky) ==
    LET s == LimbBits(X) - 53
    IN  IF s <= 0 THEN X
        ELSE LET unit == 2 ^ s
                 low  == X[4] % unit
                 half == unit \div 2
                 odd  == (X[4] \div unit) % 2 = 1
                 up   == low > half \/ (low = half /\ (sticky \/ odd))
                 cut  == <<X[1], X[2], X[3], X[4] - low>>
             IN  IF up THEN LimbCarry(<<cut[1], cut[2], cut[3], cut[4] + unit>>)
                 ELSE cut

\* The double nearest to p/q (Python's p / q), for 0 <= p < 2*q.
FDiv(p, q) ==
    LET c3 == p * 4
        c2 == (c3 % q) * LimbBase
        c1 == (c2 % q) * LimbBase
        c0 == (c1 % q) * LimbBase
    IN  FRound(<<c3 \div q, c2 \div q, c1 \div q, c0 \div q>>, c0 % q # 0)

FAdd(X, Y) == FRound(LimbAdd(X, Y), FALSE)

FZero == <<0, 0, 0, 0>>

FOne == <<4, 0, 0, 0>>

\* Python's sum() over doubles: a left fold from 0, one rounding per addition.
\* The fold runs in blocks of FoldBlock so that the evaluation stays shallow;
\* the test on the accumulator makes TLC evaluate it at each step.
FoldBlock == 2 ^ 4

RECURSIVE FSumRange(_, _, _, _)
FSumRange(s, lo, hi, acc) ==
    IF lo > hi THEN acc
    ELSE LET a == FAdd(acc, s[lo])
         IN  IF a[1] >= 0 THEN FSumRange(s, lo + 1, hi, a) ELSE a

RECURSIVE FSumFrom(_, _, _)
FSumFrom(s, lo, acc) ==
    IF lo > Len(s) THEN acc
    ELSE LET hi == IF lo + FoldBlock - 1 < Len(s) THEN lo + FoldBlock - 1 ELSE Len(s)
             a  == FSumRange(s, lo, hi, acc)
         IN  IF a[1] >= 0 THEN FSumFrom(s, hi + 1, a) ELSE a

FSum(s) == FSumFrom(s, 1, FZero)

\* The exact sum of a sequence of extended rationals (the order does not matter).
RECURSIVE QSumRange(_, _, _)
QSumRange(s, lo, hi) ==
    IF lo > hi THEN Zero
    ELSE IF lo = hi THEN s[lo]
    ELSE LET mid == (lo + hi) \div 2
         IN  QAdd(QSumRange(s, lo, mid), QSumRange(s, mid + 1, hi))

QSum(s) == QSumRange(s, 1, Len(s))

-----------------------------------------------------------------------------
(* Python values.  A str is a sequence of tokens (a token stands for one or *)
(* more characters that are neither a comma nor white space, "," for a      *)
(* comma and " " for a blank).  A dict is the sequence of its items         *)
(* <<key, value>> in insertion order, each key once.                        *)

Range(s) == {s[i] : i \in 1..Len(s)}

Keys(d) == [i \in 1..Len(d) |-> d[i][1]]

Values(d) == [i \in 1..Len(d) |-> d[i][2]]

KeySet(d) == {d[i][1] : i \in 1..Len(d)}

HasKey(d, k) == \E i \in 1..Len(d) : d[i][1] = k

Get(d, k) == d[CHOOSE i \in 1..Len(d) : d[i][1] = k][2]

\* list.index(x): the position of the first occurrence (1-based here).
Index(s, x) == CHOOSE i \in 1..Len(s) : s[i] = x /\ \A j \in 1..(i - 1) : s[j] # x

\* The distinct elements of s in the order of their first occurrence: the key
\* order of a dict filled by a loop over s.
FirstOccurrences(s) ==
    LET at   == [i \in 1..Len(s) |-> <<i, s[i]>>]
        New(p) == \A j \in 1..(p[1] - 1) : s[j] # p[2]
        kept == SelectSeq(at, New)
    IN  [i \in 1..Len(kept) |-> kept[i][2]]

LastIndex(s, x) == CHOOSE i \in 1..Len(s) : s[i] = x /\ \A j \in (i + 1)..Len(s) : s[j] # x

-----------------------------------------------------------------------------
(* The default-weight rule.                                                 *)

PercentPoints == 100

\* base_weight and remainder for num_tickers >= 1.
base_weight(num_tickers) == PercentPoints \div num_tickers

remainder(num_tickers) == PercentPoints - base_weight(num_tickers) * num_tickers

\* Variants of the rule with a slip: the remainder is dropped; the remainder
\* goes to the last tickers instead of the first.
BalancedPointsNoRemainder(num_tickers, i) == base_weight(num_tickers)

BalancedPointsToLast(num_tickers, i) ==
    base_weight(num_tickers)
        + (IF i >= num_tickers - remainder(num_tickers) THEN 1 ELSE 0)

\* The points of the ticker at 0-based position i of a list of num_tickers.
BalancedPoints(num_tickers, i) ==
    base_weight(num_tickers) + (IF i < remainder(num_tickers) THEN 1 ELSE 0)

\* A variant of BalancedWeightsRaises below: a function that guards n = 0.
NeverRaises(tks) == FALSE

\* calculate_balanced_weights raises ZeroDivisionError on the empty list.
BalancedWeightsRaises(tks) == Len(tks) = 0

\* calculate_balanced_weights(tickers) for a non-empty list: the loop assigns
\* weights[ticker] for i = 0, 1, ..., so a key holds the value of its last
\* position and keeps the place of its first.
calculate_balanced_weights(tks) ==
    LET keys == FirstOccurrences(tks)
    IN  [j \in 1..Len(keys) |->
            <<keys[j], Q(BalancedPoints(Len(tks), LastIndex(tks, keys[j]) - 1), PercentPoints)>>]

\* A weight is stored as points / 100: the points it stands for, and the
\* double that the float division yields.
IsPoints(w) == w[2] > 0 /\ PercentPoints % w[2] = 0

Points(w) == w[1] * (PercentPoints \div w[2])

AsDouble(w) == FDiv(Points(w), PercentPoints)

PointsOf(d) == [i \in 1..Len(d) |-> Points(d[i][2])]

DoublesOf(d) == [i \in 1..Len(d) |-> AsDouble(d[i][2])]

RECURSIVE SumRange(_, _, _)
SumRange(s, lo, hi) ==
    IF lo > hi THEN 0
    ELSE IF lo = hi THEN s[lo]
    ELSE LET mid == (lo + hi) \div 2
         IN  SumRange(s, lo, mid) + SumRange(s, mid + 1, hi)

Sum(s) == SumRange(s, 1, Len(s))

\* |X - 1.0| in units of 2^-62, for a double X within 2^-42 of 1.0; else -1.
DistanceFromOne(X) ==
    IF X[1] = 4 /\ X[2] = 0 /\ X[3] = 0 THEN X[4]
    ELSE IF X[1] = 3 /\ X[2] = LimbBase - 1 /\ X[3] = LimbBase - 1 THEN LimbBase - X[4]
    ELSE -1

-----------------------------------------------------------------------------
(* Calls of calculate_balanced_weights on lists of distinct tickers.        *)

MaxListLen == 102

Tick(i) == <<"T" \o ToString(i)>>

Ascending(n) == [i \in 1..n |-> Tick(i)]

Descending(n) == [i \in 1..n |-> Tick(n + 1 - i)]

TickerLists == {Ascending(n) : n \in 1..MaxListLen} \cup {Descending(n) : n \in 1..MaxListLen}

NoSession ==
    /\ tickers = <<>>
    /\ weights = <<>>
    /\ ticker_text = <<>>
    /\ slider = <<>>
    /\ hist = <<>>
    /\ page = <<>>

InitW ==
    /\ NoSession
    /\ pc = "call"
    /\ arg \in TickerLists
    /\ ret = <<>>

CallBalancedWeights ==
    /\ pc = "call"
    /\ ~BalancedWeightsRaises(arg)
    /\ ret' = calculate_balanced_weights(arg)
    /\ pc' = "done"
    /\ UNCHANGED <<tickers, weights, ticker_text, slider, hist, page, arg>>

NextW == CallBalancedWeights

SpecW == InitW /\ [][NextW]_vars

-----------------------------------------------------------------------------
(* pandas.  A Series is a function from its index (dates, numbered in       *)
(* calendar order) to values; a DataFrame is a dict column -> Series, all   *)
(* columns over one index.                                                  *)

\* TLC applies a function expression by evaluating its body anew at every
\* application; a function that was compared is tabulated once and for all.
Evaluated(f) == IF f = f THEN f ELSE <<>>

Max(S) == CHOOSE x \in S : \A y \in S : y <= x

Min(S) == CHOOSE x \in S : \A y \in S : x <= y

\* skipna reductions: NaN entries are left out; NaN if nothing is left.
Defined(series) == {d \in DOMAIN series : ~IsNaN(series[d])}

SeriesMax(series, dates) ==
    IF dates = {} THEN NaN
    ELSE series[CHOOSE d \in dates : \A e \in dates : QLe(series[e], series[d])]

SeriesMin(series, dates) ==
    IF dates = {} THEN NaN
    ELSE series[CHOOSE d \in dates : \A e \in dates : QLe(series[d], series[e])]

RECURSIVE SeriesProd(_, _)
SeriesProd(series, dates) ==
    IF dates = {} THEN One
    ELSE LET last == Max(dates)
         IN  QMul(SeriesProd(series, dates \ {last}), series[last])

\* A variant of OnePlus below: the returns themselves.
Unshifted(series) == series

\* 1 + series
OnePlus(series) == [d \in DOMAIN series |-> QAdd(One, series[d])]

\* Series.cumprod(): NaN where the entry is NaN, which the product skips.
cumprod(series) ==
    [d \in DOMAIN series |->
        IF IsNaN(series[d]) THEN NaN
        ELSE SeriesProd(series, {e \in Defined(series) : e <= d})]

\* Series.expanding().max()
expanding_max(series) ==
    [d \in DOMAIN series |-> SeriesMax(series, {e \in Defined(series) : e <= d})]

\* The values pct_change() divides: with fill_method='pad' (the default up to
\* pandas 2) a missing price is replaced by the last known one before it.
Filled(series, pad) ==
    [d \in DOMAIN series |->
        LET known == {e \in Defined(series) : e <= d}
        IN  IF pad /\ known # {} THEN series[Max(known)] ELSE series[d]]

\* A variant of pct_change below: 0 on the first date.
PctChangeZeroFirst(series, pad) ==
    LET f == Evaluated(Filled(series, pad))
    IN  [d \in DOMAIN series |->
            LET before == {e \in DOMAIN series : e < d}
            IN  IF before = {} THEN Zero
                ELSE QSub(QDiv(f[d], f[Max(before)]), One)]

\* Series.pct_change(): value / previous value - 1; NaN on the first date.
pct_change(series, pad) ==
    LET f == Evaluated(Filled(series, pad))
    IN  [d \in DOMAIN series |->
            LET before == {e \in DOMAIN series : e < d}
            IN  IF before = {} THEN NaN
                ELSE QSub(QDiv(f[d], f[Max(before)]), One)]

\* stock.history(start, end)['Close']: nothing for a symbol the provider
\* does not know.
Close(h, ticker) == IF HasKey(h, ticker) THEN Get(h, ticker) ELSE <<>>

\* What the provider holds for a ticker whose request fails with an
\* exception (network failure, rate limit): no series over the dates.
Outage == [d \in {0} |-> NaN]

\* stock.history raises for one of the tickers; the exception leaves
\* fetch_portfolio_data.
FetchRaises(h, tks) == \E i \in 1..Len(tks) : Close(h, tks[i]) = Outage

\* fetch_portfolio_data: a column per ticker; the frame takes the index of
\* the first history that is not empty, and every column is aligned to it.
fetch_portfolio_data(h, tks) ==
    LET cols  == FirstOccurrences(tks)
        full  == {i \in 1..Len(tks) : DOMAIN Close(h, tks[i]) # {}}
        index == IF full = {} THEN {} ELSE DOMAIN Close(h, tks[Min(full)])
    IN  [j \in 1..Len(cols) |->
            <<cols[j], Evaluated([d \in index |->
                                     IF d \in DOMAIN Close(h, cols[j])
                                     THEN Close(h, cols[j])[d] ELSE NaN])>>]

FrameIndex(df) == IF Len(df) = 0 THEN {} ELSE DOMAIN df[1][2]

\* df.pct_change()
daily_returns(df, pad) ==
    [j \in 1..Len(df) |-> <<df[j][1], Evaluated(pct_change(df[j][2], pad))>>]

-----------------------------------------------------------------------------
(* pages/2_Portfolio_Analysis.py                                            *)

\* Variants of the loop body below: the term replaces the sum; a missing
\* return counts as zero.
AddWeightedOverwrites(acc, column, weight) ==
    [d \in DOMAIN acc |-> QMul(column[d], weight)]

AddWeightedSkipsNaN(acc, column, weight) ==
    [d \in DOMAIN acc |->
        IF IsNaN(column[d]) THEN acc[d] ELSE QAdd(acc[d], QMul(column[d], weight))]

\* portfolio_returns += returns[ticker] * weight
AddWeighted(acc, column, weight) ==
    [d \in DOMAIN acc |-> QAdd(acc[d], QMul(column[d], weight))]

\* The loop over st.session_state.weights.items(), from the items left.
RECURSIVE WeightedSum(_, _, _)
WeightedSum(returns, items, acc) ==
    IF Len(items) = 0 THEN acc
    ELSE WeightedSum(returns, Tail(items),
                     Evaluated(AddWeighted(acc, Get(returns, items[1][1]), items[1][2])))

\* pd.Series(0, index=returns.index) and the loop; the loop raises KeyError
\* at a weight whose ticker is no column of returns.
AggregationRaises(returns, wts) == \E i \in 1..Len(wts) : ~HasKey(returns, wts[i][1])

portfolio_returns(returns, wts) ==
    WeightedSum(returns, wts, [d \in FrameIndex(returns) |-> Zero])

\* calculate_max_drawdown
calculate_max_drawdown(returns) ==
    LET cum_returns == Evaluated(cumprod(Evaluated(OnePlus(returns))))
        rolling_max == Evaluated(expanding_max(cum_returns))
        drawdowns   == Evaluated([d \in DOMAIN returns |->
                                     QSub(QDiv(cum_returns[d], rolling_max[d]), One)])
    IN  SeriesMin(drawdowns, Defined(drawdowns))

-----------------------------------------------------------------------------
(* pandas reductions of a Series; all of them skip NaN entries.             *)

\* The sum of the entries at the given dates.
RECURSIVE SeriesSumRange(_, _, _, _)
SeriesSumRange(series, dates, lo, hi) ==
    IF lo > hi THEN Zero
    ELSE IF lo = hi THEN (IF lo \in dates THEN series[lo] ELSE Zero)
    ELSE LET mid == (lo + hi) \div 2
         IN  QAdd(SeriesSumRange(series, dates, lo, mid),
                  SeriesSumRange(series, dates, mid + 1, hi))

SeriesSum(series, dates) ==
    IF dates = {} THEN Zero ELSE SeriesSumRange(series, dates, Min(dates), Max(dates))

\* The mean of the entries at the given dates; NaN if there is none.
MeanOver(series, dates) ==
    IF dates = {} THEN NaN ELSE QDiv(SeriesSum(series, dates), Q(Cardinality(dates), 1))

\* Series.mean()
mean(series) == MeanOver(series, Defined(series))

\* The sample covariance (ddof = 1) of two Series over the dates where both
\* have a value; NaN with fewer than two such dates.
cov(x, y) ==
    LET dates == Defined(x) \cap Defined(y)
        mx == MeanOver(x, dates)
        my == MeanOver(y, dates)
        products == [d \in dates |-> QMul(QSub(x[d], mx), QSub(y[d], my))]
    IN  IF Cardinality(dates) < 2 THEN NaN
        ELSE QDiv(SeriesSum(products, dates), Q(Cardinality(dates) - 1, 1))

\* Series.var()
var(series) == cov(series, series)

\* Series[mask]: the entries at the dates where the condition holds.
Where(series, Test(_)) ==
    [d \in {e \in DOMAIN series : Test(series[e])} |-> series[d]]

\* The k-th smallest of the entries at the given dates.
OrderStatistic(series, dates, k) ==
    series[CHOOSE d \in dates :
              /\ Cardinality({e \in dates : QLt(series[e], series[d])}) < k
              /\ k <= Cardinality({e \in dates : QLe(series[e], series[d])})]

\* numpy's linear interpolation between two neighbouring order statistics.
Interpolated(lower, upper, g) == QAdd(lower, QMul(QSub(upper, lower), g))

\* Series.quantile(q), interpolation='linear': the value at position
\* (n - 1) * q of the sorted entries.
quantile(series, q) ==
    LET dates == Defined(series)
        n     == Cardinality(dates)
        pos   == QMul(Q(n - 1, 1), q)
        j     == pos[1] \div pos[2]
        g     == QSub(pos, Q(j, 1))
    IN  IF n = 0 THEN NaN
        ELSE Interpolated(OrderStatistic(series, dates, j + 1),
                          OrderStatistic(series, dates, IF j + 2 <= n THEN j + 2 ELSE n),
                          g)

\* Values c * sqrt(r) with rationals c # 0 and r > 0, written as the tuple
\* <<c[1], c[2], r[1], r[2]>>: the finite non-zero results of dividing by a
\* standard deviation.  Zero, the infinities and NaN stay extended rationals.
IsSurd(x) == Len(x) = 4

Coefficient(x) == <<x[1], x[2]>>

Radicand(x) == <<x[3], x[4]>>

Surd(c, r) == IF IsNaN(c) \/ ~IsFinite(c) \/ c[1] = 0 THEN c ELSE <<c[1], c[2], r[1], r[2]>>

\* sqrt(v)
Sqrt(v) ==
    IF IsNaN(v) \/ v[1] < 0 THEN NaN
    ELSE IF v[1] = 0 \/ ~IsFinite(v) THEN v
    ELSE Surd(One, v)

\* x * q for a rational q
Scaled(x, q) ==
    IF IsSurd(x) THEN Surd(QMul(Coefficient(x), q), Radicand(x)) ELSE QMul(x, q)

\* m / s for a rational m and a square root s: m / (c sqrt(r)) = m/(c r) sqrt(r)
DivBySqrt(m, s) ==
    IF IsSurd(s)
    THEN Surd(QDiv(m, QMul(Coefficient(s), Radicand(s))), Radicand(s))
    ELSE QDiv(m, s)

\* x * sqrt(k) for a positive integer k
TimesSqrt(x, k) ==
    IF IsSurd(x) THEN Surd(Coefficient(x), QMul(Radicand(x), Q(k, 1)))
    ELSE Surd(x, Q(k, 1))

\* x + y for multiples of one square root
SurdAdd(x, y) ==
    CASE ~IsSurd(x) /\ ~IsSurd(y) -> QAdd(x, y)
      [] IsSurd(x) /\ y = Zero -> x
      [] IsSurd(x) /\ ~IsSurd(y) /\ ~IsFinite(y) -> y
      [] x = Zero /\ IsSurd(y) -> y
      [] ~IsSurd(x) /\ ~IsFinite(x) /\ IsSurd(y) -> x
      [] IsSurd(x) /\ IsSurd(y) /\ Radicand(x) = Radicand(y) ->
             Surd(QAdd(Coefficient(x), Coefficient(y)), Radicand(x))

\* x / y for multiples of one square root
SurdDiv(x, y) ==
    CASE ~IsSurd(x) /\ ~IsSurd(y) -> QDiv(x, y)
      [] IsSurd(x) /\ ~IsSurd(y) ->
             IF IsNaN(y) THEN NaN
             ELSE IF ~IsFinite(y) THEN Zero
             ELSE <<Sign(x[1]), 0>>                        \* y is zero
      [] ~IsSurd(x) /\ IsSurd(y) ->
             IF IsNaN(x) \/ x = Zero THEN x ELSE <<x[1] * Sign(y[1]), 0>>
      [] IsSurd(x) /\ IsSurd(y) /\ Radicand(x) = Radicand(y) ->
             QDiv(Coefficient(x), Coefficient(y))

\* Series.std()
std(series) == Sqrt(var(series))

-----------------------------------------------------------------------------
(* The metric functions of the analysis page.                               *)

TradingDays == 252

rf_rate == Q(4, 100)

\* calculate_alpha
calculate_alpha(portfolio, market_returns, rf) ==
    LET beta == QDiv(cov(portfolio, market_returns), var(market_returns))
        daily_rf == QDiv(rf, Q(TradingDays, 1))
        expected_return == QAdd(daily_rf, QMul(beta, QSub(mean(market_returns), daily_rf)))
        alpha == QSub(mean(portfolio), expected_return)
    IN  QMul(alpha, Q(TradingDays, 1))

\* A variant of LeftTail below: the returns at or above the cutoff.
RightTail(series, cutoff) == Where(series, LAMBDA r : QLe(cutoff, r))

\* portfolio_returns[portfolio_returns <= cutoff]
LeftTail(series, cutoff) == Where(series, LAMBDA r : QLe(r, cutoff))

VaRLevel == Q(5, 100)

\* calculate_risk_metrics.  Its second parameter here is the module global
\* market_returns, which the function reads without receiving it.
calculate_risk_metrics(portfolio, market_returns) ==
    LET excess_returns == [d \in DOMAIN portfolio |->
                              QSub(portfolio[d], QDiv(rf_rate, Q(TradingDays, 1)))]
        losses == Where(portfolio, LAMBDA r : QLt(r, Zero))
    IN  << <<"Beta", QDiv(cov(portfolio, market_returns), var(market_returns))>>,
           <<"Alpha", calculate_alpha(portfolio, market_returns, rf_rate)>>,
           <<"Sortino Ratio",
             TimesSqrt(DivBySqrt(mean(excess_returns), std(losses)), TradingDays)>>,
           <<"Max Drawdown", calculate_max_drawdown(portfolio)>>,
           <<"Value at Risk (95%)", quantile(portfolio, VaRLevel)>>,
           <<"Expected Shortfall", mean(LeftTail(portfolio, quantile(portfolio, VaRLevel)))>> >>

\* returns.cov(): the covariance of every pair of columns, each over the
\* dates where both have a value.
covariance_matrix(returns) ==
    [i \in 1..Len(returns) |->
        [j \in 1..Len(returns) |-> cov(returns[i][2], returns[j][2])]]

\* np.dot(cov, weights)
CovDotWeights(c, w) ==
    [i \in 1..Len(c) |-> QSum([j \in 1..Len(w) |-> QMul(c[i][j], w[j])])]

\* np.dot(weights.T, np.dot(cov, weights))
PortfolioVariance(c, w) ==
    QSum([i \in 1..Len(w) |-> QMul(w[i], CovDotWeights(c, w)[i])])

\* The sum of multiples of one square root.
RECURSIVE SurdSum(_)
SurdSum(s) == IF s = <<>> THEN Zero ELSE SurdAdd(s[1], SurdSum(Tail(s)))

\* A variant of AsPercentage below, without the division by the total.
Unnormalised(x, total) == Scaled(x, Q(PercentPoints, 1))

\* risk_contrib / risk_contrib.sum() * 100
AsPercentage(x, total) == QMul(SurdDiv(x, total), Q(PercentPoints, 1))

\* np.dot raises ValueError when the shapes do not match.
RiskContributionRaises(returns, w) == Len(w) # Len(returns)

\* plot_risk_contribution: the values and names handed to the pie chart.
plot_risk_contribution(returns, w) ==
    LET c == covariance_matrix(returns)
        port_vol == Sqrt(PortfolioVariance(c, w))
        marginal_contrib == [i \in 1..Len(w) |-> DivBySqrt(CovDotWeights(c, w)[i], port_vol)]
        risk_contrib == [i \in 1..Len(w) |-> Scaled(marginal_contrib[i], w[i])]
        risk_contrib_pct == [i \in 1..Len(w) |->
                                AsPercentage(risk_contrib[i], SurdSum(risk_contrib))]
    IN  [values |-> risk_contrib_pct, names |-> Keys(returns)]

\* The Sharpe ratio of lines 187-191.
sharpe(returns) == TimesSqrt(DivBySqrt(mean(returns), std(returns)), TradingDays)

-----------------------------------------------------------------------------
(* The Monte Carlo simulator.  numpy's process-wide generator is a state    *)
(* machine: every draw returns a value determined by the state and moves    *)
(* the state on.  A standard normal draw is one of -1, 0, 1 here.           *)

RngStates == 8

NormalTable == <<0, 1, -1, 1, 0, -1, -1, 1>>

\* The k-th of the draws np.random.normal(0, 1, size) makes from a state.
StandardNormal(state, k) ==
    Q(NormalTable[(((state + k - 1) % RngStates) % Len(NormalTable)) + 1], 1)

\* The state after a number of draws.
Advance(state, count) == (state + count) % RngStates

\* The value scale * exp(a + b), for a rational a and a multiple b of the
\* volatility: <<scale, a, b>>; NaN if a or b is.
ExpValue(scale, a, b) == IF IsNaN(a) \/ IsNaN(b) THEN NaN ELSE <<scale, a, b>>

\* The sign of a + b for a rational a and a multiple b of a square root.
SignOfSum(a, b) ==
    IF ~IsSurd(b) THEN Sign(QAdd(a, b)[1])
    ELSE LET c == Coefficient(b)
             squares == QSub(QMul(a, a), QMul(QMul(c, c), Radicand(b)))
         IN  IF a[1] = 0 \/ Sign(a[1]) = Sign(c[1]) THEN Sign(c[1])
             ELSE Sign(a[1]) * Sign(squares[1])

\* x <= y for two values of one scale
ExpLe(x, y) ==
    SignOfSum(QSub(x[2], y[2]), SurdAdd(x[3], Scaled(y[3], Q(-1, 1)))) <= 0

\* np.cumprod(daily_returns, axis=1) of one path, times the initial value:
\* the product of exponentials is the exponential of the sum.
RECURSIVE PathValue(_, _, _, _)
PathValue(initial, drift, shocks, d) ==
    IF d = 0 THEN ExpValue(initial, Zero, Zero)
    ELSE LET before == PathValue(initial, drift, shocks, d - 1)
         IN  IF IsNaN(before) THEN NaN
             ELSE ExpValue(initial, QAdd(before[2], drift), SurdAdd(before[3], shocks[d]))

\* The k-th smallest of a sequence of values.
KthSmallest(values, k) ==
    values[CHOOSE i \in 1..Len(values) :
              /\ Cardinality({j \in 1..Len(values) :
                                 ExpLe(values[j], values[i]) /\ ~ExpLe(values[i], values[j])}) < k
              /\ k <= Cardinality({j \in 1..Len(values) : ExpLe(values[j], values[i])})]

\* np.percentile(values, p): the value at position (n - 1) * p / 100 of the
\* sorted values; between two different neighbours it is their linear
\* interpolation <<lower, upper, g, "linear">>.
percentile(values, p) ==
    LET n   == Len(values)
        pos == QMul(Q(n - 1, 1), Q(p, PercentPoints))
        j   == pos[1] \div pos[2]
        g   == QSub(pos, Q(j, 1))
        lower == KthSmallest(values, j + 1)
        upper == KthSmallest(values, IF j + 2 <= n THEN j + 2 ELSE n)
    IN  IF \E i \in 1..n : IsNaN(values[i]) THEN NaN
        ELSE IF g = Zero \/ lower = upper THEN lower
        ELSE <<lower, upper, g, "linear">>

initial_portfolio_value == 10000

Percents == <<5, 25, 50, 75, 95>>

\* A variant of final_values below: the values of the first day.
first_values(price_paths, n_days) == [i \in 1..Len(price_paths) |-> price_paths[i][1]]

\* price_paths[:, -1]
final_values(price_paths, n_days) == [i \in 1..Len(price_paths) |-> price_paths[i][n_days]]

\* run_monte_carlo_simulation.  Its last parameter here is the state of
\* numpy's global generator, which the function draws from.
run_monte_carlo_simulation(returns, market_returns, n_simulations, n_days, state) ==
    LET portfolio_vol  == std(returns)
        portfolio_mean == mean(returns)
        drift == QSub(portfolio_mean, QDiv(var(returns), Q(2, 1)))
        shocks(i) == [d \in 1..n_days |->
                         Scaled(portfolio_vol, StandardNormal(state, (i - 1) * n_days + d))]
        price_paths == [i \in 1..n_simulations |->
                           [d \in 1..n_days |->
                               PathValue(initial_portfolio_value, drift, shocks(i), d)]]
    IN  [price_paths |-> price_paths,
         percentiles |-> [k \in 1..Len(Percents) |->
                             percentile(final_values(price_paths, n_days), Percents[k])]]

-----------------------------------------------------------------------------
\* cumulative_returns = (1 + returns).cumprod(), column by column (line 167).
cumulative_returns(returns) ==
    [j \in 1..Len(returns) |->
        <<returns[j][1], cumprod(Evaluated(OnePlus(returns[j][2])))>>]

\* One run of the page on the session's tickers and weights: the metrics it
\* displays, in order, and the exception its handler reports ("" for none).
\* Of the metrics of lines 175-216, the first, the Sharpe ratio and the
\* drawdown are carried with their values.
AnalysisRun(tks, wts, h, pad) ==
    LET df      == fetch_portfolio_data(h, tks)
        returns == daily_returns(df, pad)
        index   == FrameIndex(returns)
        Result(error, shown, pr, cum_returns) ==
            [name |-> "Analysis", returns |-> returns, portfolio_returns |-> pr,
             cumulative_returns |-> cum_returns, shown |-> shown, error |-> error]
    IN  IF FetchRaises(h, tks)
        THEN [name |-> "Analysis", returns |-> <<>>, portfolio_returns |-> <<>>,
              cumulative_returns |-> <<>>, shown |-> <<>>, error |-> "Exception"]
        ELSE IF AggregationRaises(returns, wts) THEN Result("KeyError", <<>>, <<>>, <<>>)
        ELSE LET pr  == portfolio_returns(returns, wts)
                 cr  == cumulative_returns(returns)
                 cum == cumprod(Evaluated(OnePlus(pr)))
             IN  IF index = {} THEN Result("IndexError", <<>>, pr, cr)    \* iloc[-1]
                 ELSE LET metrics ==
                              << <<"Portfolio Return", QSub(cum[Max(index)], One)>>,
                                 <<"Sharpe Ratio", sharpe(pr)>>,
                                 <<"Max Drawdown", calculate_max_drawdown(pr)>> >>
                      IN  IF \E i \in 1..Len(tks) : ~HasKey(wts, tks[i])
                          THEN Result("KeyError", metrics, pr, cr)        \* weights[ticker]
                          ELSE Result("", metrics, pr, cr)

\* The market data of the session: three dates; GOOGL did not trade on the
\* second; the provider knows no other symbol.
Prices(closes) == [d \in DOMAIN closes |-> Q(closes[d], 1)]

HistFeed ==
    << << <<"AAPL">>,  Prices(<<1, 2, 2>>) >>,
       << <<"MSFT">>,  Prices(<<2, 2, 1>>) >>,
       << <<"GOOGL">>, Prices([d \in {1, 3} |-> d]) >>,
       << <<"NVDA">>,  Prices(<<2, 1, 2>>) >>,
       << <<"AMZN">>,  Prices(<<1, 1, 1>>) >> >>

-----------------------------------------------------------------------------
(* The ticker text.                                                         *)

\* ", ".join(tickers)
RECURSIVE Join(_)
Join(tks) ==
    IF Len(tks) = 0 THEN <<>>
    ELSE IF Len(tks) = 1 THEN tks[1]
    ELSE tks[1] \o <<",", " ">> \o Join(Tail(tks))

\* text.split(","): the segments between the commas; always at least one.
RECURSIVE Split(_)
Split(text) ==
    IF \A i \in 1..Len(text) : text[i] # "," THEN <<text>>
    ELSE LET c == CHOOSE i \in 1..Len(text) :
                      text[i] = "," /\ \A j \in 1..(i - 1) : text[j] # ","
         IN  <<SubSeq(text, 1, c - 1)>> \o Split(SubSeq(text, c + 1, Len(text)))

\* ticker.strip()
Strip(seg) ==
    LET solid == {i \in 1..Len(seg) : seg[i] # " "}
    IN  IF solid = {} THEN <<>>
        ELSE SubSeq(seg, CHOOSE i \in solid : \A j \in solid : i <= j,
                         CHOOSE i \in solid : \A j \in solid : i >= j)

\* A variant of ParseTickers below: the empty entries are left out.
ParseNonEmpty(text) ==
    LET segs == Split(text)
        NonEmpty(seg) == Strip(seg) # <<>>
        kept == SelectSeq(segs, NonEmpty)
    IN  [i \in 1..Len(kept) |-> Strip(kept[i])]

\* [ticker.strip() for ticker in ticker_input.split(",")]
ParseTickers(text) == LET segs == Split(text) IN [i \in 1..Len(segs) |-> Strip(segs[i])]

-----------------------------------------------------------------------------
(* The set-up page (Home.py; pages/1_Portfolio.py is the same script).      *)
(*                                                                          *)
(* Streamlit runs the script from the top on every interaction.  A widget   *)
(* created without a key is identified by its label and its default: it     *)
(* returns the value the user gave it as long as it is created again with   *)
(* the same default, and its default otherwise.  Two identical widgets in   *)
(* one run raise DuplicateWidgetID, which ends the run.  st.rerun() ends the *)
(* run and starts the script again.                                         *)

\* A variant of default_weight below: the extra point goes by the position of
\* the occurrence itself.
DefaultByPosition(tks, i) ==
    base_weight(Len(tks)) + (IF i - 1 < remainder(Len(tks)) THEN 1 ELSE 0)

\* The inline default of the sidebar loop for the ticker at position i
\* (1-based) of tks; tickers.index(ticker) is the first occurrence.
default_weight(tks, i) ==
    base_weight(Len(tks)) + (IF Index(tks, tks[i]) - 1 < remainder(Len(tks)) THEN 1 ELSE 0)

\* The position at which the loop creates a widget a second time (0: none).
DuplicateAt(tks) ==
    LET dup == {i \in 1..Len(tks) : \E j \in 1..(i - 1) : tks[j] = tks[i]}
    IN  IF dup = {} THEN 0 ELSE CHOOSE i \in dup : \A j \in dup : i <= j

\* list.remove(x): without the first occurrence of x.
Remove(s, x) ==
    LET k == Index(s, x)
    IN  SubSeq(s, 1, k - 1) \o SubSeq(s, k + 1, Len(s))

\* What st.slider / st.number_input returns for the ticker at position i.
WidgetValue(sl, tks, i) ==
    LET id == <<tks[i], default_weight(tks, i)>>
    IN  IF id \in DOMAIN sl THEN sl[id] ELSE id[2]

\* The widget states after the loop created the widgets of positions 1..upto;
\* a run that completes drops the states of the widgets it did not create.
WidgetsAfter(sl, tks, upto, completes) ==
    LET made == {<<tks[i], default_weight(tks, i)>> : i \in 1..upto}
        keep == IF completes THEN made ELSE made \cup DOMAIN sl
    IN  [id \in keep |-> IF id \in DOMAIN sl THEN sl[id] ELSE id[2]]

\* The local dict `weights` after the loop over all of tks (no duplicate).
LoopWeights(sl, tks) ==
    [i \in 1..Len(tks) |-> <<tks[i], Q(WidgetValue(sl, tks, i), PercentPoints)>>]

\* A variant of TotalWeight below: the total of the default weights.
TotalOfDefaults(sl, tks) == Sum([i \in 1..Len(tks) |-> default_weight(tks, i)])

\* total_weight after the loop.
TotalWeight(sl, tks) == Sum([i \in 1..Len(tks) |-> WidgetValue(sl, tks, i)])

\* The widget states of the ticker text input after a run that created the
\* input with default d and got text from it.
TextAfter(tt, d, text, completes) ==
    LET keep == IF completes THEN {d} ELSE {d} \cup DOMAIN tt
    IN  [x \in keep |-> IF x = d THEN text ELSE tt[x]]

\* The values num_tickers takes at lines 64-65 in a run whose loop starts the
\* iterations 1..upto.
Divisors(tks, upto) == {Len(tks) : i \in 1..upto}

\* One run of the script.  s is the session (tickers, weights and the widget
\* states); click is <<"none">>, <<"delete", ticker>> or <<"add", symbol>>.
\* The result carries how the run ended: "complete", "rerun" (st.rerun() was
\* called) or "exception", the values of num_tickers that 100 was divided by,
\* and the lists session_state.tickers held when st.rerun() was called.
RunScript(s, click) ==
    LET d     == Join(s.tickers)
        text  == IF d \in DOMAIN s.ticker_text THEN s.ticker_text[d] ELSE d
        tks   == ParseTickers(text)
        dupAt == DuplicateAt(tks)
        delAt == IF click[1] = "delete" /\ click[2] \in Range(tks)
                 THEN Index(tks, click[2]) ELSE 0
    IN  IF dupAt # 0 /\ (delAt = 0 \/ dupAt <= delAt)
        THEN \* the slider of position dupAt raises; line 84 is not reached
             [tickers |-> tks, weights |-> s.weights,
              ticker_text |-> TextAfter(s.ticker_text, d, text, FALSE),
              slider |-> WidgetsAfter(s.slider, tks, dupAt - 1, FALSE),
              text |-> d, warning |-> FALSE, ended |-> "exception",
              num_tickers |-> Divisors(tks, dupAt), rerun_on |-> <<>>]
        ELSE IF delAt # 0
        THEN \* the Delete button of position delAt: remove, st.rerun()
             [tickers |-> Remove(tks, click[2]), weights |-> s.weights,
              ticker_text |-> TextAfter(s.ticker_text, d, text, FALSE),
              slider |-> WidgetsAfter(s.slider, tks, delAt, FALSE),
              text |-> d, warning |-> FALSE, ended |-> "rerun",
              num_tickers |-> Divisors(tks, delAt), rerun_on |-> <<>>]
        ELSE IF click[1] = "add" /\ click[2] \notin Range(tks)
        THEN \* line 84, then the Add button: append, 1/len each, st.rerun()
             LET added == Append(tks, click[2])
             IN  [tickers |-> added,
                  weights |-> [i \in 1..Len(added) |-> <<added[i], Q(1, Len(added))>>],
                  ticker_text |-> TextAfter(s.ticker_text, d, text, FALSE),
                  slider |-> WidgetsAfter(s.slider, tks, Len(tks), FALSE),
                  text |-> d,
                  warning |-> TotalWeight(s.slider, tks) # PercentPoints,
                  ended |-> "rerun",
                  num_tickers |-> Divisors(tks, Len(tks)), rerun_on |-> <<>>]
        ELSE [tickers |-> tks, weights |-> LoopWeights(s.slider, tks),
              ticker_text |-> TextAfter(s.ticker_text, d, text, TRUE),
              slider |-> WidgetsAfter(s.slider, tks, Len(tks), TRUE),
              text |-> d,
              warning |-> TotalWeight(s.slider, tks) # PercentPoints,
              ended |-> "complete",
              num_tickers |-> Divisors(tks, Len(tks)), rerun_on |-> <<>>]

\* An interaction: the run it triggers and, after st.rerun(), the next run.
Interaction(s, click) ==
    LET r == RunScript(s, click)
        again == RunScript(r, <<"none">>)
    IN  IF r.ended = "rerun"
        THEN [again EXCEPT !.num_tickers = @ \cup r.num_tickers,
                           !.rerun_on = <<r.tickers>>]
        ELSE r

\* Bounds of the session: the tokens and the length of a typed ticker text,
\* the values a weight widget is set to, the symbols offered by the search,
\* the length of the list up to which Add is used, and the number of
\* consecutive runs ended by an exception up to which the user goes on with
\* the set-up page (after that the user leaves for the analysis page).
MaxTextLen == 3
MaxTickers == 4
MaxCrashes == 1
TextTokens == {"AAPL", ","}
TypedTexts == UNION {[1..n -> TextTokens] : n \in 0..MaxTextLen}
SliderChoices == {0, 100}
nasdaq100 == {<<"AAPL">>, <<"AMZN">>}

InitialTickers == <<<<"AAPL">>, <<"MSFT">>, <<"GOOGL">>, <<"NVDA">>>>

Session == [tickers |-> tickers, weights |-> weights,
            ticker_text |-> ticker_text, slider |-> slider]

\* The first run of the script in a new session.
FirstRun ==
    LET r == RunScript([tickers |-> InitialTickers,
                        weights |-> calculate_balanced_weights(InitialTickers),
                        ticker_text |-> <<>>, slider |-> <<>>], <<"none">>)
    IN  [r EXCEPT !.num_tickers = @ \cup {Len(InitialTickers)}]

\* What the set-up page shows after a run: the text input it created, the
\* warning, how the run ended, and how many runs in a row ended with an
\* exception; and what the interaction executed: the divisors of 100 and the
\* list at st.rerun().
SetupPage(r, crashes) ==
    [name |-> "Home", text |-> r.text, warning |-> r.warning, ended |-> r.ended,
     crashes |-> IF r.ended = "exception" THEN crashes + 1 ELSE 0,
     num_tickers |-> r.num_tickers, rerun_on |-> r.rerun_on]

Init ==
    /\ tickers = FirstRun.tickers
    /\ weights = FirstRun.weights
    /\ ticker_text = FirstRun.ticker_text
    /\ slider = FirstRun.slider
    /\ page = SetupPage(FirstRun, 0)
    /\ hist = HistFeed
    /\ pc = "session"
    /\ arg = <<>>
    /\ ret = <<>>

Show(r) ==
    /\ tickers' = r.tickers
    /\ weights' = r.weights
    /\ ticker_text' = r.ticker_text
    /\ slider' = r.slider
    /\ page' = SetupPage(r, IF page.name = "Home" THEN page.crashes ELSE 0)
    /\ UNCHANGED <<hist, pc, arg, ret>>

\* The positions whose slider and Delete button the last run created.
Rendered == 1..(IF DuplicateAt(tickers) = 0 THEN Len(tickers) ELSE DuplicateAt(tickers) - 1)

\* The user replaces the content of the ticker text input.
EditText(text) ==
    /\ pc = "session" /\ page.name = "Home"
    /\ page.crashes < MaxCrashes
    /\ Show(Interaction([Session EXCEPT !.ticker_text[page.text] = text], <<"none">>))

\* The user moves the weight widget of the ticker at position i to v.
SetSlider(i, v) ==
    /\ pc = "session" /\ page.name = "Home"
    /\ page.crashes < MaxCrashes
    /\ i \in Rendered
    /\ Show(Interaction([Session EXCEPT !.slider[<<tickers[i], default_weight(tickers, i)>>] = v],
                        <<"none">>))

\* The user clicks the Delete button of the ticker at position i.
Delete(i) ==
    /\ pc = "session" /\ page.name = "Home"
    /\ page.crashes < MaxCrashes
    /\ i \in Rendered
    /\ Show(Interaction(Session, <<"delete", tickers[i]>>))

\* The user clicks the Add button of a symbol found by the search.
Add(symbol) ==
    /\ pc = "session" /\ page.name = "Home"
    /\ page.crashes < MaxCrashes
    /\ page.ended = "complete"
    /\ Len(tickers) < MaxTickers
    /\ Show(Interaction(Session, <<"add", symbol>>))

\* Any other interaction with the page (a date, the search box, Fetch).
Rerun ==
    /\ pc = "session" /\ page.name = "Home"
    /\ page.crashes < MaxCrashes
    /\ Show(Interaction(Session, <<"none">>))

\* The user opens the analysis page (or interacts with it): the page runs on
\* the session as the set-up page left it.  The widgets of the set-up page
\* are not created by this run, so their states are dropped.
PortfolioAnalysis(pad) ==
    /\ pc \in {"session", "page"}
    /\ page' = AnalysisRun(tickers, weights, hist, pad)
    /\ ticker_text' = <<>>
    /\ slider' = <<>>
    /\ UNCHANGED <<tickers, weights, hist, pc, arg, ret>>

\* The user comes back to the set-up page.
OpenSetup ==
    /\ pc = "session" /\ page.name = "Analysis"
    /\ Show(Interaction(Session, <<"none">>))

Next ==
    \/ \E text \in TypedTexts : EditText(text)
    \/ \E i \in 1..(MaxTextLen + 2), v \in SliderChoices : SetSlider(i, v)
    \/ \E i \in 1..(MaxTextLen + 2) : Delete(i)
    \/ \E symbol \in nasdaq100 : Add(symbol)
    \/ Rerun
    \/ \E pad \in BOOLEAN : PortfolioAnalysis(pad)
    \/ OpenSetup

Spec == Init /\ [][Next]_vars

-----------------------------------------------------------------------------
(* The analysis page on drawn market data: two instruments, each with a     *)
(* Close on any of the dates, and matching weights.                         *)

NDates == 3
PriceChoices == {1, 2}
WeightChoices == {0, 50}

SeriesChoices == UNION {[dates -> {Q(c, 1) : c \in PriceChoices}] : dates \in SUBSET (1..NDates)}

\* The series behind the returns A = [0.1, -0.05] and B = [0.02, 0.03].
ExampleFeed ==
    << << <<"AAPL">>, Prices(<<200, 220, 209>>) >>,
       << <<"MSFT">>, Prices(<<5000, 5100, 5253>>) >> >>

DrawnFeeds ==
    {<< << <<"AAPL">>, a >>, << <<"MSFT">>, b >> >> : a \in SeriesChoices, b \in SeriesChoices}
    \cup {ExampleFeed}
    \cup {<< << <<"AAPL">>, Outage >>, << <<"MSFT">>, Prices(<<1, 2, 1>>) >> >>,
          << << <<"AAPL">>, Prices(<<1, 2, 1>>) >>, << <<"MSFT">>, Outage >> >>}

DrawnTickers == {<< <<"AAPL">> >>, << <<"AAPL">>, <<"MSFT">> >>, << <<"MSFT">>, <<"AAPL">> >>}

InitPA ==
    /\ tickers \in DrawnTickers
    /\ weights \in {[i \in 1..Len(tickers) |-> <<tickers[i], Q(p[i], PercentPoints)>>] :
                       p \in [1..Len(tickers) -> WeightChoices]}
    /\ hist \in DrawnFeeds
    /\ ticker_text = <<>>
    /\ slider = <<>>
    /\ page = [name |-> "none"]
    /\ pc = "page"
    /\ arg = <<>>
    /\ ret = <<>>

NextPA == \E pad \in BOOLEAN : PortfolioAnalysis(pad)

SpecPA == InitPA /\ [][NextPA]_vars

-----------------------------------------------------------------------------
(* calculate_max_drawdown on drawn return series.                           *)

MaxLen == 4
ReturnChoices == {Q(-2, 1), Q(-1, 1), Q(-1, 2), Zero, Q(1, 2), One, NaN}
ReturnSeries == UNION {[1..n -> ReturnChoices] : n \in 0..MaxLen}

InitM ==
    /\ NoSession
    /\ pc = "call"
    /\ arg \in ReturnSeries
    /\ ret = <<>>

CallMaxDrawdown ==
    /\ pc = "call"
    /\ ret' = calculate_max_drawdown(arg)
    /\ pc' = "done"
    /\ UNCHANGED <<tickers, weights, ticker_text, slider, hist, page, arg>>

NextM == CallMaxDrawdown

SpecM == InitM /\ [][NextM]_vars

-----------------------------------------------------------------------------
(* calculate_risk_metrics on drawn return series.  page holds the globals   *)
(* of the page's module: market_returns, as the run of lines 199-200 left   *)
(* it.  The function is called, the page fetches the benchmark again, and   *)
(* the function is called again with the same argument.                     *)

MaxReturns == 4
RiskReturnChoices == {Q(-1, 2), Zero, Q(1, 2), NaN}

\* Longer series, for which the 5% position lies beyond the smallest entry:
\* two losses, then gains of 1/2 and losses of 1/3 in turn.
LongLens == {21, 30}
LongSeries(n) ==
    [k \in 1..n |-> IF k = 1 THEN Q(-3, 4) ELSE IF k = 2 THEN Q(-1, 2)
                    ELSE IF k % 2 = 1 THEN Q(1, 2) ELSE Q(-1, 3)]

RiskReturnSeries ==
    UNION {[1..n -> RiskReturnChoices] : n \in 0..MaxReturns}
    \cup {LongSeries(n) : n \in LongLens}

BenchmarkCloses == {Prices(<<1, 2, 1>>), Prices(<<2, 2, 1>>), Prices(<<1, 1, 1>>)}

Globals(market_returns) == [name |-> "globals", market_returns |-> market_returns]

InitR ==
    /\ tickers = <<>>
    /\ weights = <<>>
    /\ ticker_text = <<>>
    /\ slider = <<>>
    /\ hist = <<>>
    /\ page \in {Globals(pct_change(c, TRUE)) : c \in BenchmarkCloses}
    /\ pc = "call"
    /\ arg \in RiskReturnSeries
    /\ ret = <<>>

CallRiskMetrics ==
    /\ pc \in {"call", "again"}
    /\ ret' = Append(ret, calculate_risk_metrics(arg, page.market_returns))
    /\ pc' = IF pc = "call" THEN "again" ELSE "done"
    /\ UNCHANGED <<tickers, weights, ticker_text, slider, hist, page, arg>>

\* Lines 199-200 run again: market_returns is bound to the returns of the
\* benchmark as the provider delivers it now.
FetchBenchmark(closes, pad) ==
    /\ pc = "again"
    /\ page' = Globals(pct_change(closes, pad))
    /\ UNCHANGED <<tickers, weights, ticker_text, slider, hist, pc, arg, ret>>

NextR ==
    \/ CallRiskMetrics
    \/ \E closes \in BenchmarkCloses, pad \in BOOLEAN : FetchBenchmark(closes, pad)

SpecR == InitR /\ [][NextR]_vars

-----------------------------------------------------------------------------
(* plot_risk_contribution on drawn daily returns (the first date without a  *)
(* return, as pct_change leaves it) and drawn weight vectors.               *)

ContributionDates == 3
ContributionReturns == {Q(-1, 2), Zero, One}
ContributionWeights == {Q(-1, 2), Zero, Q(1, 2), One}

ReturnColumns ==
    {[d \in 1..ContributionDates |-> IF d = 1 THEN NaN ELSE r[d]] :
        r \in [2..ContributionDates -> ContributionReturns]}

ReturnFrames ==
    {<< << <<"AAPL">>, a >> >> : a \in ReturnColumns}
    \cup {<< << <<"AAPL">>, a >>, << <<"MSFT">>, b >> >> : a \in ReturnColumns, b \in ReturnColumns}

InitRC ==
    /\ tickers = <<>>
    /\ weights = <<>>
    /\ ticker_text = <<>>
    /\ slider = <<>>
    /\ hist = <<>>
    /\ page = <<>>
    /\ pc = "call"
    /\ arg \in {<<f, w>> : f \in ReturnFrames, w \in UNION {[1..n -> ContributionWeights] : n \in 1..2}}
    /\ ret = <<>>

CallPlotRiskContribution ==
    /\ pc = "call"
    /\ ~RiskContributionRaises(arg[1], arg[2])
    /\ ret' = plot_risk_contribution(arg[1], arg[2])
    /\ pc' = "done"
    /\ UNCHANGED <<tickers, weights, ticker_text, slider, hist, page, arg>>

PlotRiskContributionFails ==
    /\ pc = "call"
    /\ RiskContributionRaises(arg[1], arg[2])
    /\ ret' = "ValueError"
    /\ pc' = "raised"
    /\ UNCHANGED <<tickers, weights, ticker_text, slider, hist, page, arg>>

NextRC == CallPlotRiskContribution \/ PlotRiskContributionFails

SpecRC == InitRC /\ [][NextRC]_vars

-----------------------------------------------------------------------------
(* run_monte_carlo_simulation on drawn arguments.  page holds the state of  *)
(* the process outside the session: the state of numpy's global generator.  *)
(* The simulator is called, the page draws the paths to plot (line 371),    *)
(* and the simulator is called again with the same arguments.               *)

MaxSimulations == 3
MaxDays == 2

SimulatedReturns ==
    {<<NaN>>, <<NaN, Zero, Zero>>, <<NaN, Q(1, 2), Q(-1, 2)>>, <<NaN, Q(1, 2), Zero>>}

Process(state) == [name |-> "process", random_state |-> state]

InitMC ==
    /\ tickers = <<>>
    /\ weights = <<>>
    /\ ticker_text = <<>>
    /\ slider = <<>>
    /\ hist = <<>>
    /\ page \in {Process(s) : s \in 0..(RngStates - 1)}
    /\ pc = "call"
    /\ arg \in SimulatedReturns \X (1..MaxSimulations) \X (1..MaxDays)
    /\ ret = <<>>

CallMonteCarlo ==
    /\ pc \in {"call", "again"}
    /\ ret' = Append(ret, run_monte_carlo_simulation(arg[1], <<>>, arg[2], arg[3],
                                                     page.random_state))
    /\ page' = Process(Advance(page.random_state, arg[2] * arg[3]))
    /\ pc' = IF pc = "call" THEN "again" ELSE "done"
    /\ UNCHANGED <<tickers, weights, ticker_text, slider, hist, arg>>

\* np.random.choice (line 371): one more use of the global generator.
RandomChoice ==
    /\ pc = "again"
    /\ page' = Process(Advance(page.random_state, 1))
    /\ UNCHANGED <<tickers, weights, ticker_text, slider, hist, pc, arg, ret>>

NextMC == CallMonteCarlo \/ RandomChoice

SpecMC == InitMC /\ [][NextMC]_vars

-----------------------------------------------------------------------------
(* calculate_balanced_weights and the inline defaults of the sidebar loop   *)
(* on any list: empty, of distinct tickers, or with a ticker repeated.      *)
(* The function is called on the list, and lines 64-67 of the loop are      *)
(* evaluated for every position of the same list.  (In a run of the script  *)
(* the slider of a second occurrence raises DuplicateWidgetID, which ends   *)
(* the loop at position DuplicateAt.)                                       *)

MaxRepeatLen == 4

Symbols == {<<"AAPL">>, <<"MSFT">>, <<"GOOGL">>}

RepeatLists == UNION {[1..n -> Symbols] : n \in 0..MaxRepeatLen}

Sidebar(ran, defaults, duplicate_at) ==
    [name |-> "Sidebar", ran |-> ran, default_weight |-> defaults,
     duplicate_at |-> duplicate_at]

InitB ==
    /\ tickers = <<>>
    /\ weights = <<>>
    /\ ticker_text = <<>>
    /\ slider = <<>>
    /\ hist = <<>>
    /\ page = Sidebar(FALSE, <<>>, 0)
    /\ pc = "call"
    /\ arg \in TickerLists \cup RepeatLists
    /\ ret = <<>>

\* The call of calculate_balanced_weights raises (line 19).
CallBalancedWeightsFails ==
    /\ pc = "call"
    /\ BalancedWeightsRaises(arg)
    /\ ret' = "ZeroDivisionError"
    /\ pc' = "raised"
    /\ UNCHANGED <<tickers, weights, ticker_text, slider, hist, page, arg>>

\* Lines 64-67 for every ticker of the list.
SidebarDefaults ==
    /\ ~page.ran
    /\ page' = Sidebar(TRUE, [i \in 1..Len(arg) |-> default_weight(arg, i)], DuplicateAt(arg))
    /\ UNCHANGED <<tickers, weights, ticker_text, slider, hist, pc, arg, ret>>

NextB == CallBalancedWeights \/ CallBalancedWeightsFails \/ SidebarDefaults

SpecB == InitB /\ [][NextB]_vars

-----------------------------------------------------------------------------
(* Claims about calculate_balanced_weights (checked under SpecW).           *)

C2_RemainderToFirst ==
    pc = "done" =>
        LET n    == Len(arg)
            base == PercentPoints \div n
            rem  == PercentPoints - base * n
        IN  /\ Keys(ret) = arg
            /\ \A i \in 1..n :
                  Points(Get(ret, arg[i])) = IF i <= rem THEN base + 1 ELSE base
            /\ n = 6 => PointsOf(ret) = <<17, 17, 17, 17, 16, 16>>

\* A call with six tickers has returned four weights of 17 and two of 16.
C2_Witness ==
    /\ pc = "done"
    /\ Len(arg) = 6
    /\ PointsOf(ret) = <<17, 17, 17, 17, 16, 16>>

-----------------------------------------------------------------------------
(* Claims about the session (checked under Spec).                           *)

\* C3: in every state an analysis page can read, the keys of
\* session_state.weights are exactly the tickers of session_state.tickers:
\* no stale key and no ticker without a weight.
C3_WeightKeysAreTickers == KeySet(weights) = Range(tickers)

\* C4: whenever a run of the set-up page has processed a change of the
\* instrument set, the stored weights are the ones the default-weight rule
\* gives for the new list, and they total exactly 100 points.
C4_RecomputedOnChange ==
    [][(/\ page.name = "Home" /\ page'.name = "Home"
        /\ page'.ended = "complete"
        /\ Range(tickers') # Range(tickers))
       => /\ weights' = calculate_balanced_weights(tickers')
          /\ Sum(PointsOf(weights')) = PercentPoints]_vars

\* C5: session_state.tickers never holds the same identifier twice.
C5_TickersDistinct ==
    \A i, j \in 1..Len(tickers) : i # j => tickers[i] # tickers[j]

\* C8: when the keys of the weights are not the tickers, the analysis page
\* reports an error and displays no metric computed from the weights.
C8_MismatchIsReported ==
    (page.name = "Analysis" /\ KeySet(weights) # Range(tickers))
        => (page.error # "" /\ page.shown = <<>>)

-----------------------------------------------------------------------------
(* Claims about the aggregation (checked under SpecPA).                     *)

\* The returns of the weighted instruments on date d, each times its weight.
WeightedTerms(d) ==
    [i \in 1..Len(weights) |-> QMul(weights[i][2], Get(page.returns, weights[i][1])[d])]

Half == Q(1, 2)

\* C6: on every date the portfolio return is the sum over the instruments of
\* weight times return; the returns [0.1, -0.05] and [0.02, 0.03] at weights
\* 0.5 and 0.5 give [0.06, -0.01].
C6_WeightedSum ==
    page.name = "Analysis" =>
        /\ DOMAIN page.portfolio_returns = FrameIndex(page.returns)
        /\ \A d \in DOMAIN page.portfolio_returns :
              page.portfolio_returns[d] = QSum(WeightedTerms(d))
        /\ (hist = ExampleFeed /\ Len(weights) = 2 /\ Range(Values(weights)) = {Half})
              => /\ Get(page.returns, <<"AAPL">>)[2] = Q(1, 10)
                 /\ Get(page.returns, <<"AAPL">>)[3] = Q(-5, 100)
                 /\ Get(page.returns, <<"MSFT">>)[2] = Q(2, 100)
                 /\ Get(page.returns, <<"MSFT">>)[3] = Q(3, 100)
                 /\ page.portfolio_returns[2] = Q(6, 100)
                 /\ page.portfolio_returns[3] = Q(-1, 100)

C6_Witness ==
    /\ page.name = "Analysis"
    /\ hist = ExampleFeed /\ Len(weights) = 2 /\ Range(Values(weights)) = {Half}
    /\ page.portfolio_returns[2] = Q(6, 100)

\* C7, as the specification states it: on the first date, where no
\* instrument has a return, the portfolio return is 0.
C7_FirstDateIsZero ==
    (page.name = "Analysis" /\ DOMAIN page.portfolio_returns # {})
        => page.portfolio_returns[Min(DOMAIN page.portfolio_returns)] = Zero

\* C7, amended: the accumulator starts at 0, but on the first date every
\* instrument's return is NaN and so is the portfolio return (0 + NaN * w).
C7_FirstDateIsNaN ==
    (page.name = "Analysis" /\ DOMAIN page.portfolio_returns # {})
        => LET first == Min(DOMAIN page.portfolio_returns)
           IN  /\ \A i \in 1..Len(page.returns) : IsNaN(page.returns[i][2][first])
               /\ IsNaN(page.portfolio_returns[first])

C7_Witness ==
    /\ page.name = "Analysis"
    /\ Cardinality(DOMAIN page.portfolio_returns) = NDates
    /\ IsNaN(page.portfolio_returns[1])
    /\ \A d \in 2..NDates : ~IsNaN(page.portfolio_returns[d])
    /\ \E i \in 1..Len(weights) : weights[i][2] = Zero

\* C9: on a date where a weighted instrument has no return, the portfolio
\* return is NaN; the date stays in the series and the missing return does
\* not count as zero.
C9_MissingReturnPropagates ==
    page.name = "Analysis" =>
        /\ DOMAIN page.portfolio_returns = FrameIndex(page.returns)
        /\ \A d \in DOMAIN page.portfolio_returns :
              (\E i \in 1..Len(weights) : IsNaN(Get(page.returns, weights[i][1])[d]))
                  => IsNaN(page.portfolio_returns[d])

C9_Witness ==
    /\ page.name = "Analysis"
    /\ \E d \in DOMAIN page.portfolio_returns, i, j \in 1..Len(weights) :
          /\ d # Min(DOMAIN page.portfolio_returns)
          /\ IsNaN(Get(page.returns, weights[i][1])[d])
          /\ ~IsNaN(Get(page.returns, weights[j][1])[d])
          /\ ~IsNaN(QMul(weights[j][2], Get(page.returns, weights[j][1])[d]))
          /\ IsNaN(page.portfolio_returns[d])

-----------------------------------------------------------------------------
(* Claims about calculate_max_drawdown (checked under SpecM).               *)

MinusOne == Q(-1, 1)

\* Every daily return of the series is greater than -1 (NaN: no return).
AboveMinusOne(returns) ==
    \A d \in DOMAIN returns : IsNaN(returns[d]) \/ QLt(MinusOne, returns[d])

\* C10, as the specification states it: for a series whose daily returns are
\* all greater than -1 the maximum drawdown d satisfies -1 <= d <= 0.
C10_DrawdownInRange ==
    (pc = "done" /\ AboveMinusOne(arg))
        => (QLe(MinusOne, ret) /\ QLe(ret, Zero))

\* C10, amended: the same for a series with at least one daily return; for a
\* series without any (empty, or NaN only) the maximum drawdown is NaN.
C10_DrawdownInRangeOrNaN ==
    (pc = "done" /\ AboveMinusOne(arg))
        => IF Defined(arg) = {} THEN IsNaN(ret)
           ELSE QLe(MinusOne, ret) /\ QLe(ret, Zero)

C10_Witness ==
    /\ pc = "done" /\ AboveMinusOne(arg)
    /\ Len(arg) = MaxLen
    /\ IsNaN(arg[1])
    /\ QLt(MinusOne, ret) /\ QLt(ret, Zero)

-----------------------------------------------------------------------------
(* Claims about calculate_risk_metrics (checked under SpecR).               *)

-----------------------------------------------------------------------------
(* Claims about plot_risk_contribution (checked under SpecRC).              *)

\* The portfolio variance w'Cw of the call's arguments (sigma_p squared).
ArgumentVariance == PortfolioVariance(covariance_matrix(arg[1]), arg[2])

\* C12: for returns and weights with a non-zero portfolio variance and
\* sum(weights) > 0, the risk contribution percentages add up to 100.
C12_ContributionsSumTo100 ==
    (/\ pc = "done"
     /\ IsFinite(ArgumentVariance) /\ ArgumentVariance # Zero
     /\ QLt(Zero, QSum(arg[2])))
        => SurdSum(ret.values) = Q(PercentPoints, 1)

\* Two instruments with different contributions, one of them negative.
C12_Witness ==
    /\ pc = "done"
    /\ IsFinite(ArgumentVariance) /\ ArgumentVariance # Zero
    /\ QLt(Zero, QSum(arg[2]))
    /\ Len(ret.values) = 2
    /\ QLt(ret.values[1], Zero)
    /\ QLt(Q(PercentPoints, 1), ret.values[2])

\* C13: when the portfolio volatility is zero the decomposition fails with
\* an error; it hands no NaN or infinite contribution to the chart.
ZeroVolatility == ~RiskContributionRaises(arg[1], arg[2]) /\ ArgumentVariance = Zero

C13_ZeroVolatilityFails ==
    (pc # "call" /\ ZeroVolatility) => pc = "raised"

-----------------------------------------------------------------------------
(* Claims about the metrics of the analysis page (checked under SpecPA).    *)

\* C14: whenever the portfolio return series has zero standard deviation,
\* the Sharpe ratio the page computes is NaN, for a zero and a non-zero mean
\* return alike; it is not infinite and no error is raised.
C14_ZeroStdSharpeIsNaN ==
    (/\ page.name = "Analysis"
     /\ page.portfolio_returns # <<>>
     /\ std(page.portfolio_returns) = Zero)
        => /\ HasKey(page.shown, "Sharpe Ratio")
           /\ IsNaN(Get(page.shown, "Sharpe Ratio"))

-----------------------------------------------------------------------------
(* Claims about the purity of the metric functions (checked under SpecR).   *)

\* C15: two calls of a metric function with equal arguments return identical
\* results, whatever the rest of the program state is (in particular the
\* benchmark series the page fetched) and whatever ran in between.
C15_SameArgumentsSameResult ==
    pc = "done" => ret[1] = ret[2]

-----------------------------------------------------------------------------
(* Claims about run_monte_carlo_simulation (checked under SpecMC).          *)

\* C16: two runs of run_monte_carlo_simulation with the same portfolio
\* returns, n_simulations, n_days (and seed) produce the same price paths
\* and percentiles, whatever other random draws happened in between.
C16_SameArgumentsSamePaths ==
    pc = "done" => ret[1] = ret[2]

\* The closed form of a path value: 10000 * exp(d * drift + sigma * (the sum
\* of the path's first d draws)), the draws being taken row by row.
TerminalValue(returns, n_days, state, i, d) ==
    LET drift == QSub(mean(returns), QDiv(var(returns), Q(2, 1)))
        zsum  == QSum([e \in 1..d |-> StandardNormal(state, (i - 1) * n_days + e)])
    IN  ExpValue(initial_portfolio_value, QMul(Q(d, 1), drift), Scaled(std(returns), zsum))

\* C17: a call of run_monte_carlo_simulation returns paths whose values are
\* 10000 times the running product of the daily factors exp(drift + sigma*Z),
\* and five percentiles taken over the last-day values only: each is one of
\* these values or lies between two of them, and with one simulation all
\* five equal the path's last value (with n_days = 1: 10000 * exp(drift +
\* sigma*Z) for the one draw Z).
C17_PercentilesOfTerminalValues ==
    [][(pc = "call" /\ pc' = "again") =>
        LET r == ret'[1]
            last == {r.price_paths[i][arg[3]] : i \in 1..arg[2]}
        IN  /\ \A i \in 1..arg[2], d \in 1..arg[3] :
                   r.price_paths[i][d] = TerminalValue(arg[1], arg[3], page.random_state, i, d)
            /\ \A k \in 1..Len(Percents) :
                   \/ r.percentiles[k] \in last
                   \/ /\ Len(r.percentiles[k]) = 4
                      /\ r.percentiles[k][1] \in last /\ r.percentiles[k][2] \in last
            /\ arg[2] = 1 =>
                   \A k \in 1..Len(Percents) : r.percentiles[k] = r.price_paths[1][arg[3]]
      ]_vars

\* One simulation of one day with a non-zero draw and a non-zero volatility.
C17_Witness ==
    /\ pc = "again" /\ arg[2] = 1 /\ arg[3] = 1
    /\ ~IsNaN(ret[1].price_paths[1][1])
    /\ IsSurd(ret[1].price_paths[1][1][3])
    /\ \A k \in 1..Len(Percents) : ret[1].percentiles[k] = ret[1].price_paths[1][1]

\* The provider fails for ticker t: the request raises, or the result is
\* empty (unknown ticker, no data).
ProviderFails(t) == Close(hist, t) = Outage \/ Close(hist, t) = <<>>

\* C18: when the provider fails for one ticker of a batch, the failure is
\* reported, the data of the other tickers is still fetched, and their
\* computations and displays complete.
C18_FailureReportedPerTicker ==
    \A i, j \in 1..Len(tickers) :
        (/\ page.name = "Analysis"
         /\ ProviderFails(tickers[i])
         /\ ~ProviderFails(tickers[j]))
            => /\ page.error # ""
               /\ HasKey(page.returns, tickers[j])
               /\ page.shown # <<>>

\* The columns of the fetched frame that are a strictly positive price
\* series: a price on every date of the index.
PriceColumns ==
    LET df == fetch_portfolio_data(hist, tickers)
    IN  {j \in 1..Len(df) : \A d \in FrameIndex(df) : QLt(Zero, df[j][2][d])}

\* The last value of the cumulative series of column j, and the quotient of
\* its last and first price.
LastCumulative(j) == page.cumulative_returns[j][2][Max(FrameIndex(page.returns))]

PriceRatio(j) ==
    LET prices == fetch_portfolio_data(hist, tickers)[j][2]
    IN  QDiv(prices[Max(DOMAIN prices)], prices[Min(DOMAIN prices)])

\* C19, as the specification states it: for every strictly positive price
\* series the last value of the cumulative series equals
\* price[last] / price[first].
C19_RoundTrip ==
    (page.name = "Analysis" /\ page.cumulative_returns # <<>>
        /\ FrameIndex(page.returns) # {})
        => \A j \in PriceColumns : LastCumulative(j) = PriceRatio(j)

\* C19, amended: the same for a series of at least two prices; for a single
\* price the cumulative series has no value (NaN: the series is not seeded
\* at 1, its first entry is the NaN of the first return).
C19_RoundTripFromTwoPrices ==
    (page.name = "Analysis" /\ page.cumulative_returns # <<>>
        /\ FrameIndex(page.returns) # {})
        => \A j \in PriceColumns :
               IF Cardinality(FrameIndex(page.returns)) >= 2
               THEN LastCumulative(j) = PriceRatio(j)
               ELSE IsNaN(LastCumulative(j))

\* The example series 200, 220, 209: the cumulative series ends at 209/200.
C19_Witness ==
    /\ page.name = "Analysis" /\ hist = ExampleFeed
    /\ page.cumulative_returns # <<>>
    /\ 1 \in PriceColumns
    /\ tickers[1] = <<"AAPL">>
    /\ LastCumulative(1) = Q(209, 200)

-----------------------------------------------------------------------------
(* Claims about the weight total of the set-up page (checked under Spec).   *)

\* The percentage points entered in the weight widget of position i.
EnteredPoints(i) == WidgetValue(slider, tickers, i)

\* C20: after a run of the set-up page that entered a weight for every
\* ticker, the page shows the warning exactly when the entered percentage
\* points do not total 100, and session_state.weights holds the entered
\* weights as they are (points / 100, neither rejected nor normalised).
C20_WarningIffTotalNot100 ==
    (page.name = "Home" /\ page.ended = "complete") =>
        /\ page.warning <=> Sum([i \in 1..Len(tickers) |-> EnteredPoints(i)]) # PercentPoints
        /\ weights = [i \in 1..Len(tickers) |->
                         <<tickers[i], Q(EnteredPoints(i), PercentPoints)>>]

\* A total of more than 100 points, stored as entered, with the warning.
C20_Witness ==
    /\ page.name = "Home" /\ page.ended = "complete"
    /\ page.warning
    /\ Len(tickers) >= 2
    /\ EnteredPoints(1) = PercentPoints
    /\ weights[1][2] = One
    /\ QLt(One, QSum(Values(weights)))


-----------------------------------------------------------------------------
(* Claims about the default-weight rule on any list (checked under SpecB).  *)

\* C21: calculate_balanced_weights called with an empty ticker list fails: it
\* raises on the division by n = 0 and never returns a weight mapping, not
\* even an empty one; a call with at least one ticker does not raise.
C21_EmptyListRaises ==
    /\ pc = "done" => arg # <<>>
    /\ pc = "raised" => (arg = <<>> /\ ret = "ZeroDivisionError")

\* The call on the empty list has raised ZeroDivisionError.
C21_Witness ==
    /\ pc = "raised"
    /\ arg = <<>>
    /\ ret = "ZeroDivisionError"

\* Python's x * k for a double x and a small integer k.
FTimes(X, k) == FRound(LimbCarry(<<k * X[1], k * X[2], k * X[3], k * X[4]>>), FALSE)

\* |X - p| in units of 2^-62, for a double X within 2^-42 of the integer p;
\* else -1.
DistanceFromInt(X, p) ==
    IF X[1] = 4 * p /\ X[2] = 0 /\ X[3] = 0 THEN X[4]
    ELSE IF X[1] = 4 * p - 1 /\ X[2] = LimbBase - 1 /\ X[3] = LimbBase - 1 THEN LimbBase - X[4]
    ELSE -1

\* The inline default of position i and the weight the function returned for
\* the ticker at that position.
Inline(i) == page.default_weight[i]

Returned(i) == Get(ret, arg[i])

Repeated(tks) == DuplicateAt(tks) # 0

\* A ticker occurs among the first `remainder` positions and after them.
Straddles(tks) ==
    \E i, j \in 1..Len(tks) :
        i <= remainder(Len(tks)) /\ remainder(Len(tks)) < j /\ tks[i] = tks[j]

\* C23, as stated: for every list of distinct tickers the inline default of
\* each ticker equals 100 times the weight calculate_balanced_weights returns
\* (in exact arithmetic); with a repeated ticker the two differ and the inline
\* defaults do not total 100.
C23_InlineEqualsFunction ==
    (pc = "done" /\ page.ran) =>
        /\ ~Repeated(arg) =>
              \A i \in 1..Len(arg) :
                  Q(Inline(i), 1) = QMul(Q(PercentPoints, 1), Returned(i))
        /\ Repeated(arg) =>
              /\ \E i \in 1..Len(arg) :
                     Q(Inline(i), 1) # QMul(Q(PercentPoints, 1), Returned(i))
              /\ Sum(page.default_weight) # PercentPoints

\* C23, amended: for every list of distinct tickers the inline default of each
\* ticker, divided by 100, is exactly the weight calculate_balanced_weights
\* returns (the float product 100 * weight is the default up to rounding,
\* within default * 2^-52), and the defaults total 100.  With a repeated ticker every
\* occurrence takes the default of the first one, while the function keeps
\* the weight of the last one: the two differ, and the inline defaults total
\* more than 100, exactly when a ticker occurs both among the first
\* `remainder` positions and after them; otherwise they agree and total 100.
C23_InlineEqualsFunctionUnlessStraddling ==
    (pc = "done" /\ page.ran) =>
        /\ \A i \in 1..Len(arg) :
              /\ Inline(i) = Inline(Index(arg, arg[i]))
              /\ Returned(i) = Q(BalancedPoints(Len(arg), LastIndex(arg, arg[i]) - 1), PercentPoints)
              /\ Q(Inline(i), PercentPoints) = Returned(i) =>
                    /\ FDiv(Inline(i), PercentPoints) = AsDouble(Returned(i))
                    /\ DistanceFromInt(FTimes(AsDouble(Returned(i)), PercentPoints), Inline(i))
                           \in 0..(Inline(i) * 1024)
        /\ ~Repeated(arg) =>
              /\ \A i \in 1..Len(arg) : Q(Inline(i), PercentPoints) = Returned(i)
              /\ Sum(page.default_weight) = PercentPoints
        /\ (\E i \in 1..Len(arg) : Q(Inline(i), PercentPoints) # Returned(i)) <=> Straddles(arg)
        /\ Sum(page.default_weight) > PercentPoints <=> Straddles(arg)
        /\ ~Straddles(arg) => Sum(page.default_weight) = PercentPoints

\* Both computations ran on the list AAPL, AAPL: the ticker is repeated, the
\* inline defaults 50, 50 total 100 and are 100 times the returned weight.
C23_Witness ==
    /\ pc = "done" /\ page.ran
    /\ arg = << <<"AAPL">>, <<"AAPL">> >>
    /\ page.default_weight = <<50, 50>>
    /\ ret = << << <<"AAPL">>, Q(1, 2) >> >>

-----------------------------------------------------------------------------
(* A claim about the divisions of the set-up page (checked under Spec).     *)

\* C22: on the set-up page 100 // num_tickers is never executed with zero
\* tickers: after the ticker text is parsed the list holds at least one
\* entry (an empty text yields the single entry ""), also when st.rerun()
\* was called on the empty list left by the Delete button of the last ticker
\* (the text input is then created with the empty default and what it returns
\* is parsed), and every division of a run is by the length of the list its
\* loop runs over.
C22_NeverDividesByZero ==
    page.name = "Home" =>
        /\ 0 \notin page.num_tickers
        /\ Len(tickers) >= 1
        /\ Len(tickers) \in page.num_tickers
        /\ ticker_text[page.text] = <<>> => tickers = << <<>> >>
        /\ page.rerun_on = << <<>> >> =>
              (page.text = <<>> /\ tickers = ParseTickers(ticker_text[page.text]))

\* The Delete button removed the last ticker: the script ran again on the
\* empty list, parsed the empty text to the single entry "" and divided by 1.
C22_Witness ==
    /\ page.name = "Home"
    /\ page.rerun_on = << <<>> >>
    /\ tickers = << <<>> >>
    /\ page.num_tickers = {1}

=============================================================================

